---- MODULE Spec2Model ----
(***************************************************************************)
(* A model of xrpbot.py: the price fetcher (_fetch_one_id, get_price_data), *)
(* the per-guild reconciliation (update_guild), the scheduler loop          *)
(* (updater_loop) and the lifecycle handlers (on_ready, _shutdown).         *)
(*                                                                          *)
(* Coroutines are modelled at the granularity of their suspension points:   *)
(* a coroutine's position is part of the state and one action is what runs  *)
(* between two awaits.  Exceptions are values: an operation returns the     *)
(* name of the exception class it raised, "none" when it returned.          *)
(***************************************************************************)
EXTENDS Integers, Sequences, FiniteSets, TLC

VARIABLES
    COIN_IDS,        \* the configured candidate ids (xrpbot.py:14)
    GUILD_ID,        \* the configured guild id, "None" when unset (xrpbot.py:23)
    fetch,           \* one get_price_data call, attempt by attempt
    nickjob,         \* one pass through the nickname lines of update_guild
    http_session,    \* _http_session: "none", "open" or "closed"
    update_task,     \* update_task: "none", or where its updater_loop is
    cancelRequested, \* update_task.cancel() was called, not yet delivered
    loopExit,        \* how the latest updater_loop task ended
    tickErr,         \* the except of the current tick has run
    loopLog,         \* highest severity the loop has logged in this tick
    targets,         \* the targets of the current tick
    calls,           \* per guild: the update_guild call of the current tick
    closed,          \* client.is_closed()
    shutdownPc,      \* where _shutdown is
    awaited,         \* the task _shutdown awaits: "none", "pending", "done"
    liveTasks,       \* updater_loop tasks that are not done
    openSessions     \* ClientSession objects that are open

vars == <<COIN_IDS, GUILD_ID, fetch, nickjob, http_session, update_task,
          cancelRequested, loopExit, tickErr, loopLog, targets, calls, closed, shutdownPc,
          awaited, liveTasks, openSessions>>

sysVars == <<GUILD_ID, http_session, update_task, cancelRequested, loopExit,
             tickErr, loopLog, targets, calls, closed, shutdownPc, awaited,
             liveTasks, openSessions>>

---------------------------------------------------------------------------
(* Bounds of the model *)

MaxSources == 2      \* longest COIN_IDS list tried by the fetcher model
NumGuilds == 2       \* guilds the bot has joined

(* Severities of the logging module, as used by the log.* calls *)
DEBUG == 10
INFO == 20
WARNING == 30
ERROR == 40

Max(a, b) == IF a >= b THEN a ELSE b

---------------------------------------------------------------------------
(* The price API: what one request can come back with *)

CoinNames == {"ripple", "xrp"}
DefaultCoinIds == <<"ripple", "xrp">>

Num(v) == [tag |-> "num", val |-> v]
Missing == [tag |-> "missing", val |-> 0]   \* the key is absent
Null == [tag |-> "null", val |-> 0]         \* JSON null
Text == [tag |-> "text", val |-> 0]         \* a string that is no number

PriceFields == {Num(1), Num(2), Missing, Null, Text}
ChangeFields == {Num(1), Num(-1), Missing, Null, Text}

Rows == [current_price : PriceFields, price_change_percentage_24h : ChangeFields]

Bodies == {[kind |-> "object", rows |-> <<>>], [kind |-> "list", rows |-> <<>>]}
          \cup {[kind |-> "list", rows |-> <<r>>] : r \in Rows}

NoBody == [kind |-> "object", rows |-> <<>>]

Responses == {[net |-> "timeout", status |-> 0, body |-> NoBody],
              [net |-> "client_error", status |-> 0, body |-> NoBody]}
             \cup [net : {"ok"}, status : {200, 500}, body : Bodies]

Raise(e) == [exc |-> e, price |-> 0, change |-> 0]
Return(p, c) == [exc |-> "none", price |-> p, change |-> c]

(* float(x) of a JSON value: the exception it raises, "none" for a number *)
FloatExc(f) ==
    CASE f.tag = "num" -> "none"
      [] f.tag = "missing" -> "KeyError"
      [] f.tag = "null" -> "TypeError"
      [] OTHER -> "ValueError"

(* _fetch_one_id: one request and the parse of its first record *)
FetchOneId(resp) ==
    IF resp.net = "timeout" THEN Raise("TimeoutError")
    ELSE IF resp.net = "client_error" THEN Raise("ClientError")
    ELSE IF resp.status # 200 THEN Raise("RuntimeError")
    ELSE IF resp.body.kind # "list" \/ Len(resp.body.rows) = 0 THEN Raise("RuntimeError")
    ELSE LET row == resp.body.rows[1] IN
         IF FloatExc(row.current_price) # "none"
           THEN Raise(FloatExc(row.current_price))
         ELSE IF FloatExc(row.price_change_percentage_24h) # "none"
           THEN Raise(FloatExc(row.price_change_percentage_24h))
         ELSE Return(row.current_price.val, row.price_change_percentage_24h.val)

---------------------------------------------------------------------------
(* get_price_data *)

backoffs == <<0, 15, 30, 50>>     \* tenths of a second: 0, 1.5, 3.0, 5.0

NoErr == [exc |-> "None", src |-> 0, attempt |-> 0]

(* The exception classes of the except clause of get_price_data *)
CaughtByFetch == {"ClientError", "TimeoutError", "RuntimeError"}

(* The state of a call on entry: the loops have not run yet *)
FetchStart(ids) ==
    [src |-> 1, attempt |-> 1, last_err |-> NoErr, trace |-> <<>>,
     result |-> IF Len(ids) = 0 THEN "exhausted" ELSE "running",
     price |-> 0, change |-> 0, raised |-> "none", fallbackLogged |-> FALSE]

(* FetchStep with a plausible slip: a failed attempt is not retried, the
   next source is tried at once *)
FetchStep_NoRetry(f, ids, resp) ==
    LET delay == backoffs[f.attempt]
        r == FetchOneId(resp)
        entry == [src |-> f.src, attempt |-> f.attempt, wait |-> delay,
                  ok |-> (r.exc = "none"), price |-> r.price, change |-> r.change]
        tr == Append(f.trace, entry)
    IN  IF r.exc = "none"
          THEN [f EXCEPT !.trace = tr, !.result = "ok", !.price = r.price,
                         !.change = r.change,
                         !.fallbackLogged = (ids[f.src] # ids[1])]
        ELSE IF r.exc \in CaughtByFetch
          THEN LET e == [exc |-> r.exc, src |-> f.src, attempt |-> f.attempt] IN
               IF f.src < Len(ids)
                 THEN [f EXCEPT !.trace = tr, !.last_err = e, !.src = f.src + 1,
                                !.attempt = 1]
               ELSE [f EXCEPT !.trace = tr, !.last_err = e, !.result = "exhausted",
                              !.raised = "RuntimeError"]
        ELSE [f EXCEPT !.trace = tr, !.result = "propagated", !.raised = r.exc]

(* FetchStep with a plausible slip: the schedule is indexed by the requests
   made so far and does not start again with the next source *)
FetchStep_BackoffCarries(f, ids, resp) ==
    LET delay == backoffs[IF Len(f.trace) < Len(backoffs) THEN Len(f.trace) + 1
                          ELSE Len(backoffs)]
        r == FetchOneId(resp)
        entry == [src |-> f.src, attempt |-> f.attempt, wait |-> delay,
                  ok |-> (r.exc = "none"), price |-> r.price, change |-> r.change]
        tr == Append(f.trace, entry)
    IN  IF r.exc = "none"
          THEN [f EXCEPT !.trace = tr, !.result = "ok", !.price = r.price,
                         !.change = r.change,
                         !.fallbackLogged = (ids[f.src] # ids[1])]
        ELSE IF r.exc \in CaughtByFetch
          THEN LET e == [exc |-> r.exc, src |-> f.src, attempt |-> f.attempt] IN
               IF f.attempt < Len(backoffs)
                 THEN [f EXCEPT !.trace = tr, !.last_err = e, !.attempt = f.attempt + 1]
               ELSE IF f.src < Len(ids)
                 THEN [f EXCEPT !.trace = tr, !.last_err = e, !.src = f.src + 1,
                                !.attempt = 1]
               ELSE [f EXCEPT !.trace = tr, !.last_err = e, !.result = "exhausted",
                              !.raised = "RuntimeError"]
        ELSE [f EXCEPT !.trace = tr, !.result = "propagated", !.raised = r.exc]

(* One iteration of the inner loop: the sleep, the request, the outcome *)
FetchStep(f, ids, resp) ==
    LET delay == backoffs[f.attempt]
        r == FetchOneId(resp)
        entry == [src |-> f.src, attempt |-> f.attempt, wait |-> delay,
                  ok |-> (r.exc = "none"), price |-> r.price, change |-> r.change]
        tr == Append(f.trace, entry)
    IN  IF r.exc = "none"
          THEN [f EXCEPT !.trace = tr, !.result = "ok", !.price = r.price,
                         !.change = r.change,
                         !.fallbackLogged = (ids[f.src] # ids[1])]
        ELSE IF r.exc \in CaughtByFetch
          THEN LET e == [exc |-> r.exc, src |-> f.src, attempt |-> f.attempt] IN
               IF f.attempt < Len(backoffs)
                 THEN [f EXCEPT !.trace = tr, !.last_err = e, !.attempt = f.attempt + 1]
               ELSE IF f.src < Len(ids)
                 THEN [f EXCEPT !.trace = tr, !.last_err = e, !.src = f.src + 1,
                                !.attempt = 1]
               ELSE [f EXCEPT !.trace = tr, !.last_err = e, !.result = "exhausted",
                              !.raised = "RuntimeError"]
        ELSE [f EXCEPT !.trace = tr, !.result = "propagated", !.raised = r.exc]

(* A whole call: the first `fails` requests get `bad`, the others `then` *)
RECURSIVE GetPriceData(_, _, _)
GetPriceData(f, ids, script) ==
    IF f.result # "running" THEN f
    ELSE GetPriceData(
           FetchStep(f, ids, IF Len(f.trace) < script.fails THEN script.bad
                             ELSE script.then),
           ids, script)

---------------------------------------------------------------------------
(* The nickname lines of update_guild (l.111-114).  A str is the sequence of
   its code points; a float is its sign, the decimal digits of its integer
   part and its fraction in ten-thousandths, or an infinity or a NaN (json
   and float() produce both). *)

MaxIntDigits == 27   \* longest integer part of a price tried

NickLimit == 32      \* the length limit of l.113-114

Finite(neg, int, frac) == [kind |-> "finite", neg |-> neg, int |-> int, frac |-> frac]
Inf(neg) == [kind |-> "inf", neg |-> neg, int |-> <<0>>, frac |-> 0]
NaN == [kind |-> "nan", neg |-> FALSE, int |-> <<0>>, frac |-> 0]

DigitChar(d) == <<"0", "1", "2", "3", "4", "5", "6", "7", "8", "9">>[d + 1]

RECURSIVE Chars(_)
Chars(ds) == IF ds = <<>> THEN <<>> ELSE <<DigitChar(Head(ds))>> \o Chars(Tail(ds))

(* The digits of the integer ds + 1 *)
RECURSIVE Incr(_)
Incr(ds) ==
    IF ds = <<>> THEN <<1>>
    ELSE LET n == Len(ds) IN
         IF ds[n] < 9 THEN [ds EXCEPT ![n] = ds[n] + 1]
         ELSE Append(Incr(SubSeq(ds, 1, n - 1)), 0)

(* format(x, ".3f"): rounded to thousandths, the carry going into the
   integer part; "inf" and "nan" for the non-finite values *)
FormatFixed3(x) ==
    IF x.kind = "nan" THEN <<"n", "a", "n">>
    ELSE LET sign == IF x.neg THEN <<"-">> ELSE <<>> IN
         IF x.kind = "inf" THEN sign \o <<"i", "n", "f">>
         ELSE LET r == (x.frac \div 10) + (IF x.frac % 10 >= 5 THEN 1 ELSE 0)
                  int == IF r = 1000 THEN Incr(x.int) ELSE x.int
                  m == IF r = 1000 THEN 0 ELSE r
              IN sign \o Chars(int) \o <<".">>
                      \o Chars(<<m \div 100, (m \div 10) % 10, m % 10>>)

(* x >= 0 for a float x: false for a NaN, true for -0.0 *)
GeZero(x) ==
    IF x.kind = "nan" THEN FALSE
    ELSE IF x.kind = "inf" THEN ~x.neg
    ELSE ~x.neg \/ (x.frac = 0 /\ \A i \in 1 .. Len(x.int) : x.int[i] = 0)

(* Lines 111-112; each circle is one code point *)
FormatNickname(price, change_24h) ==
    LET emoji == IF GeZero(change_24h) THEN "green circle" ELSE "red circle" IN
    <<"$">> \o FormatFixed3(price) \o <<" ", emoji>>

(* Truncate with a plausible slip: the cut keeps room for the circle *)
Truncate_KeepEmoji(nickname) ==
    IF Len(nickname) > NickLimit
      THEN SubSeq(nickname, 1, NickLimit) \o SubSeq(nickname, Len(nickname) - 1, Len(nickname))
    ELSE nickname

(* Lines 113-114 *)
Truncate(nickname) ==
    IF Len(nickname) > NickLimit THEN SubSeq(nickname, 1, NickLimit) ELSE nickname

NoJob == [stage |-> "none", price |-> NaN, change_24h |-> NaN,
          formatted |-> <<>>, nickname |-> <<>>]

---------------------------------------------------------------------------
(* The specification of one get_price_data call, attempt by attempt *)

RECURSIVE SeqsUpTo(_, _)
SeqsUpTo(S, n) ==
    IF n = 0 THEN {<<>>}
    ELSE LET shorter == SeqsUpTo(S, n - 1) IN
         shorter \cup {Append(q, x) : q \in shorter, x \in S}

Guilds == 1 .. NumGuilds          \* client.guilds
GuildIdNone == -1                 \* GUILD_ID is None
GuildIdValues == {GuildIdNone} \cup (0 .. NumGuilds + 1)

NoObs == [kind |-> "none", price |-> 0, change |-> 0]

FreshCall ==
    [pc |-> "idle", gen |-> "cur", perm |-> "unknown", fetches |-> 0,
     requests |-> 0, obs |-> NoObs, nick |-> 0, status |-> 0,
     statusText |-> "none", log |-> 0, raised |-> "none"]

SysInit ==
    /\ GUILD_ID \in GuildIdValues
    /\ http_session = "none"
    /\ update_task = "none"
    /\ cancelRequested = FALSE
    /\ loopExit = "none"
    /\ tickErr = FALSE
    /\ loopLog = 0
    /\ targets = {}
    /\ calls = [g \in Guilds |-> FreshCall]
    /\ closed = FALSE
    /\ shutdownPc = "idle"
    /\ awaited = "none"
    /\ liveTasks = 0
    /\ openSessions = 0

InitFetch ==
    /\ COIN_IDS \in SeqsUpTo(CoinNames, MaxSources)
    /\ fetch = FetchStart(COIN_IDS)
    /\ nickjob = NoJob
    /\ SysInit
    /\ GUILD_ID = GuildIdNone

FetchAttempt ==
    /\ fetch.result = "running"
    /\ \E resp \in Responses : fetch' = FetchStep(fetch, COIN_IDS, resp)
    /\ UNCHANGED <<COIN_IDS, nickjob, sysVars>>

NextFetch == FetchAttempt

SpecFetch == InitFetch /\ [][NextFetch]_vars

---------------------------------------------------------------------------
(* The specification of the nickname lines: a sample comes in, the nickname
   handed to me.edit goes out *)

RepeatDigit(d, n) == [i \in 1 .. n |-> d]

NickPrices ==
    {Finite(neg, RepeatDigit(d, n), frac) :
        neg \in BOOLEAN, d \in {1, 9}, n \in 1 .. MaxIntDigits,
        frac \in {0, 2346, 9996}}
    \cup {Finite(FALSE, <<0>>, 5004), Inf(FALSE), Inf(TRUE), NaN}

NickChanges ==
    {Finite(FALSE, <<1>>, 2346), Finite(TRUE, <<1>>, 2346), Finite(TRUE, <<0>>, 0), NaN}

InitNick ==
    /\ COIN_IDS = DefaultCoinIds
    /\ fetch = FetchStart(COIN_IDS)
    /\ SysInit
    /\ GUILD_ID = GuildIdNone
    /\ \E p \in NickPrices, ch \in NickChanges :
         nickjob = [NoJob EXCEPT !.stage = "sample", !.price = p, !.change_24h = ch]

NickStep ==
    /\ nickjob.stage = "sample"
    /\ nickjob' = [nickjob EXCEPT
                     !.stage = "edit",
                     !.formatted = FormatNickname(nickjob.price, nickjob.change_24h),
                     !.nickname = Truncate(FormatNickname(nickjob.price,
                                                          nickjob.change_24h))]
    /\ UNCHANGED <<COIN_IDS, fetch, sysVars>>

NextNick == NickStep

SpecNick == InitNick /\ [][NextNick]_vars

---------------------------------------------------------------------------
(* update_guild: one call per target and tick, one action per await *)

(* The class hierarchy the except clauses of update_guild rely on *)
IsHTTPException(e) == e \in {"HTTPException", "Forbidden", "NotFound"}
IsException(e) == e \notin {"none", "CancelledError"}

MemberOutcomes == {"none", "HTTPException", "NotFound", "TimeoutError"}
EditOutcomes == {"none", "Forbidden", "HTTPException", "TimeoutError"}
PresenceOutcomes == {"none", "ConnectionClosed"}
PermSets == SUBSET {"change_nickname", "manage_nicknames"}

InFlight(c) == c.pc \in {"member", "fetch", "api_error", "nick", "presence"}

Logged(c, level) == [c EXCEPT !.log = Max(c.log, level)]

(* ResolveMember with plausible slips in the permission check *)
ResolveMember_FetchFirst(c, cached, exc, perms, session) ==
    IF ~cached /\ IsHTTPException(exc)
      THEN [Logged(c, WARNING) EXCEPT !.pc = "done"]
    ELSE IF ~cached /\ exc # "none"
      THEN [c EXCEPT !.pc = "raised", !.raised = exc]
    ELSE IF perms = {}
      THEN [Logged(c, INFO) EXCEPT !.pc = "done", !.perm = "missing",
                                   !.fetches = c.fetches + 1, !.requests = 1]
    ELSE IF session = "none"
      THEN [Logged(c, WARNING) EXCEPT !.pc = "api_error", !.perm = "granted",
                                      !.obs = [NoObs EXCEPT !.kind = "failed"]]
    ELSE [c EXCEPT !.pc = "fetch", !.perm = "granted", !.fetches = c.fetches + 1]

ResolveMember_NoPermReturn(c, cached, exc, perms, session) ==
    IF ~cached /\ IsHTTPException(exc)
      THEN [Logged(c, WARNING) EXCEPT !.pc = "done"]
    ELSE IF ~cached /\ exc # "none"
      THEN [c EXCEPT !.pc = "raised", !.raised = exc]
    ELSE IF session = "none"
      THEN [Logged(c, WARNING) EXCEPT !.pc = "api_error",
                                      !.perm = IF perms = {} THEN "missing" ELSE "granted",
                                      !.obs = [NoObs EXCEPT !.kind = "failed"]]
    ELSE [c EXCEPT !.pc = "fetch",
                   !.perm = IF perms = {} THEN "missing" ELSE "granted",
                   !.fetches = c.fetches + 1]

(* guild.me or fetch_member, the permission check, the session assertion *)
ResolveMember(c, cached, exc, perms, session) ==
    IF ~cached /\ IsHTTPException(exc)
      THEN [Logged(c, WARNING) EXCEPT !.pc = "done"]
    ELSE IF ~cached /\ exc # "none"
      THEN [c EXCEPT !.pc = "raised", !.raised = exc]
    ELSE IF perms = {}
      THEN [Logged(c, INFO) EXCEPT !.pc = "done", !.perm = "missing"]
    ELSE IF session = "none"
      THEN [Logged(c, WARNING) EXCEPT !.pc = "api_error", !.perm = "granted",
                                      !.obs = [NoObs EXCEPT !.kind = "failed"]]
    ELSE [c EXCEPT !.pc = "fetch", !.perm = "granted", !.fetches = c.fetches + 1]

(* AfterFetch with a plausible slip: the except logs and falls through *)
AfterFetch_FallThrough(c, f) ==
    IF f.result = "ok"
      THEN [c EXCEPT !.pc = "nick", !.requests = c.requests + Len(f.trace),
                     !.obs = [kind |-> "sample", price |-> f.price,
                              change |-> f.change]]
    ELSE [Logged(c, WARNING) EXCEPT !.pc = "nick",
                                    !.requests = c.requests + Len(f.trace),
                                    !.obs = [NoObs EXCEPT !.kind = "failed"]]

(* What update_guild does with the outcome f of its get_price_data call *)
AfterFetch(c, f) ==
    IF f.result = "ok"
      THEN [c EXCEPT !.pc = "nick", !.requests = c.requests + Len(f.trace),
                     !.obs = [kind |-> "sample", price |-> f.price,
                              change |-> f.change]]
    ELSE [Logged(c, WARNING) EXCEPT !.pc = "api_error",
                                    !.requests = c.requests + Len(f.trace),
                                    !.obs = [NoObs EXCEPT !.kind = "failed"]]

(* change_presence("API error") inside the except of the fetch *)
ApiErrorPresence(c, exc) ==
    [c EXCEPT !.pc = "done", !.status = c.status + 1, !.statusText = "API error"]

(* EditNick with a plausible slip: a refused edit is tried a second time *)
EditNick_RetryForbidden(c, exc) ==
    LET d == [c EXCEPT !.nick = c.nick + 1] IN
    IF exc = "none" THEN [d EXCEPT !.pc = "presence"]
    ELSE IF exc = "Forbidden"
      THEN [Logged(d, INFO) EXCEPT !.pc = "presence", !.nick = d.nick + 1]
    ELSE IF IsHTTPException(exc) THEN [Logged(d, WARNING) EXCEPT !.pc = "presence"]
    ELSE [d EXCEPT !.pc = "raised", !.raised = exc]

(* me.edit(nick=...) and its two except clauses *)
EditNick(c, exc) ==
    LET d == [c EXCEPT !.nick = c.nick + 1] IN
    IF exc = "none" THEN [d EXCEPT !.pc = "presence"]
    ELSE IF exc = "Forbidden" THEN [Logged(d, INFO) EXCEPT !.pc = "presence"]
    ELSE IF IsHTTPException(exc) THEN [Logged(d, WARNING) EXCEPT !.pc = "presence"]
    ELSE [d EXCEPT !.pc = "raised", !.raised = exc]

(* change_presence("24h ...") and the closing log line *)
SetPresence(c, exc) ==
    LET d == [c EXCEPT !.status = c.status + 1, !.statusText = "24h change"] IN
    [Logged(IF exc = "none" THEN d ELSE Logged(d, DEBUG), INFO) EXCEPT !.pc = "done"]

Good(p, ch) ==
    [net |-> "ok", status |-> 200,
     body |-> [kind |-> "list",
               rows |-> <<[current_price |-> Num(p),
                           price_change_percentage_24h |-> Num(ch)]>>]]
Http500 == [net |-> "ok", status |-> 500, body |-> NoBody]
NoPriceField ==
    [net |-> "ok", status |-> 200,
     body |-> [kind |-> "list",
               rows |-> <<[current_price |-> Missing,
                           price_change_percentage_24h |-> Num(1)]>>]]

(* The price API behaviours tried for a whole get_price_data call *)
SysScripts ==
    {[fails |-> 0, bad |-> Http500, then |-> Good(1, 1)],
     [fails |-> 0, bad |-> Http500, then |-> Http500],
     [fails |-> 0, bad |-> Http500, then |-> NoPriceField]}

callRest == <<COIN_IDS, GUILD_ID, fetch, nickjob, http_session, update_task,
                cancelRequested, loopExit, tickErr, loopLog, targets, closed,
                shutdownPc, awaited, liveTasks, openSessions>>

CallMember(g) ==
    /\ calls[g].pc = "member"
    /\ \E cached \in BOOLEAN, exc \in MemberOutcomes, perms \in PermSets :
         calls' = [calls EXCEPT ![g] =
                     ResolveMember(calls[g], cached, exc, perms, http_session)]
    /\ UNCHANGED callRest

CallFetch(g) ==
    /\ calls[g].pc = "fetch"
    /\ \E script \in SysScripts :
         calls' = [calls EXCEPT ![g] =
                     AfterFetch(calls[g],
                                GetPriceData(FetchStart(COIN_IDS), COIN_IDS, script))]
    /\ UNCHANGED callRest

CallApiError(g) ==
    /\ calls[g].pc = "api_error"
    /\ \E exc \in PresenceOutcomes :
         calls' = [calls EXCEPT ![g] = ApiErrorPresence(calls[g], exc)]
    /\ UNCHANGED callRest

CallNick(g) ==
    /\ calls[g].pc = "nick"
    /\ \E exc \in EditOutcomes :
         calls' = [calls EXCEPT ![g] = EditNick(calls[g], exc)]
    /\ UNCHANGED callRest

CallPresence(g) ==
    /\ calls[g].pc = "presence"
    /\ \E exc \in PresenceOutcomes :
         calls' = [calls EXCEPT ![g] = SetPresence(calls[g], exc)]
    /\ UNCHANGED callRest

---------------------------------------------------------------------------
(* updater_loop *)

TaskActive(t) == t \notin {"none", "done"}

(* Lines 137-143: the targets of a tick *)
ResolveTargets(gid, joined) ==
    IF gid # GuildIdNone /\ gid # 0
      THEN IF gid \in joined THEN {gid} ELSE {}
    ELSE joined

(* The task has finished: what the handles see *)
TaskEnds(how) ==
    /\ update_task' = "done"
    /\ loopExit' = how
    /\ cancelRequested' = FALSE
    /\ liveTasks' = liveTasks - 1
    /\ awaited' = IF awaited = "pending" THEN "done" ELSE awaited

(* The while test and the body of the loop up to the gather.  The state keeps
   one update_guild call per guild, so a tick is begun only once the calls
   that an earlier, failed gather left running have ended. *)
RunTick ==
    /\ ~cancelRequested
    /\ \A g \in Guilds : ~InFlight(calls[g])
    /\ IF closed
         THEN /\ TaskEnds("returned")
              /\ UNCHANGED <<tickErr, loopLog, targets, calls>>
         ELSE LET t == ResolveTargets(GUILD_ID, Guilds) IN
              /\ targets' = t
              /\ tickErr' = FALSE
              /\ loopLog' = IF t = {} THEN INFO ELSE 0
              /\ calls' = [g \in Guilds |->
                             IF g \in t THEN [FreshCall EXCEPT !.pc = "member"]
                             ELSE FreshCall]
              /\ update_task' = IF t = {} THEN "sleep" ELSE "gather"
              /\ UNCHANGED <<loopExit, cancelRequested, liveTasks, awaited>>
    /\ UNCHANGED <<COIN_IDS, GUILD_ID, fetch, nickjob, http_session, closed, shutdownPc,
                   openSessions>>

LoopStart ==
    /\ update_task = "wait_ready"
    /\ RunTick

LoopSleepDone ==
    /\ update_task = "sleep"
    /\ RunTick

(* LoopExcept with a plausible slip: only the platform's errors are caught *)
LoopExcept_OnlyHTTP(e) == IF IsHTTPException(e) THEN "sleep" ELSE "done"

(* The except of the loop body: where the loop goes with exception e *)
LoopExcept(e) == IF IsException(e) THEN "sleep" ELSE "done"

LoopGatherDone ==
    /\ update_task = "gather"
    /\ ~cancelRequested
    /\ \A g \in targets : calls[g].pc = "done"
    /\ update_task' = "sleep"
    /\ UNCHANGED <<COIN_IDS, GUILD_ID, fetch, nickjob, http_session, cancelRequested,
                   loopExit, tickErr, loopLog, targets, calls, closed, shutdownPc,
                   awaited, liveTasks, openSessions>>

(* AfterGatherError with a plausible slip: the failed wait cancels the
   children that are still running, as a task group would *)
AfterGatherError_CancelsSiblings(c) ==
    IF InFlight(c) THEN [c EXCEPT !.gen = "orphan", !.pc = "cancelled"] ELSE c

(* What a child of the gather becomes when the gather has raised: it is not
   cancelled; a child still running goes on with nobody awaiting it *)
AfterGatherError(c) ==
    IF InFlight(c) THEN [c EXCEPT !.gen = "orphan"] ELSE c

(* gather re-raises the first exception of a child; the others keep running *)
LoopGatherError ==
    /\ update_task = "gather"
    /\ ~cancelRequested
    /\ \E g \in targets :
         /\ calls[g].pc = "raised"
         /\ calls[g].gen = "cur"
         /\ IF LoopExcept(calls[g].raised) = "sleep"
              THEN /\ update_task' = "sleep"
                   /\ tickErr' = TRUE
                   /\ loopLog' = Max(loopLog, ERROR)
                   /\ UNCHANGED <<loopExit, cancelRequested, liveTasks, awaited>>
              ELSE /\ TaskEnds("crashed")
                   /\ UNCHANGED <<tickErr, loopLog>>
    /\ calls' = [g \in Guilds |-> AfterGatherError(calls[g])]
    /\ UNCHANGED <<COIN_IDS, GUILD_ID, fetch, nickjob, http_session, targets, closed,
                   shutdownPc, openSessions>>

(* CancelledError is thrown into the task at its await; a gather under it
   cancels its children before the task ends *)
LoopCancelled ==
    /\ cancelRequested
    /\ TaskActive(update_task)
    /\ TaskEnds("cancelled")
    /\ calls' = [g \in Guilds |->
                   IF update_task = "gather" /\ calls[g].gen = "cur" /\ InFlight(calls[g])
                     THEN [calls[g] EXCEPT !.pc = "cancelled"]
                   ELSE calls[g]]
    /\ UNCHANGED <<COIN_IDS, GUILD_ID, fetch, nickjob, http_session, tickErr, loopLog,
                   targets, closed, shutdownPc, openSessions>>

---------------------------------------------------------------------------
(* on_ready, _shutdown and the client *)

(* NeedsTask with plausible slips *)
NeedsTask_Always(t) == TRUE
NeedsTask_OnlyFirst(t) == t = "none"

NeedsSession(s) == s = "none" \/ s = "closed"
NeedsTask(t) == t = "none" \/ t = "done"

OnReady ==
    /\ ~closed
    /\ IF NeedsSession(http_session)
         THEN http_session' = "open" /\ openSessions' = openSessions + 1
         ELSE UNCHANGED <<http_session, openSessions>>
    /\ IF NeedsTask(update_task)
         THEN /\ update_task' = "wait_ready"
              /\ liveTasks' = liveTasks + 1
              /\ loopExit' = "none"
              /\ cancelRequested' = FALSE
              /\ tickErr' = FALSE
         ELSE UNCHANGED <<update_task, liveTasks, loopExit, cancelRequested, tickErr>>
    /\ shutdownPc' = IF shutdownPc = "returned" THEN "idle" ELSE shutdownPc
    /\ UNCHANGED <<COIN_IDS, GUILD_ID, fetch, nickjob, loopLog, targets, calls,
                   closed, awaited>>

(* Line 181: the task is cancelled and awaited *)
ShutdownCancels(t) == TaskActive(t)
(* Lines 185-186 *)
ShutdownCloses(s) == s = "open"

CloseSession ==
    IF ShutdownCloses(http_session)
      THEN http_session' = "closed" /\ openSessions' = openSessions - 1
      ELSE UNCHANGED <<http_session, openSessions>>

ShutdownCall ==
    /\ shutdownPc \in {"idle", "returned"}
    /\ IF ShutdownCancels(update_task)
         THEN /\ cancelRequested' = TRUE
              /\ awaited' = "pending"
              /\ shutdownPc' = "await_task"
              /\ UNCHANGED <<http_session, openSessions>>
         ELSE /\ CloseSession
              /\ shutdownPc' = "returned"
              /\ UNCHANGED <<cancelRequested, awaited>>
    /\ UNCHANGED <<COIN_IDS, GUILD_ID, fetch, nickjob, update_task, loopExit, tickErr,
                   loopLog, targets, calls, closed, liveTasks>>

ShutdownResume ==
    /\ shutdownPc = "await_task"
    /\ awaited = "done"
    /\ CloseSession
    /\ shutdownPc' = "returned"
    /\ UNCHANGED <<COIN_IDS, GUILD_ID, fetch, nickjob, update_task, cancelRequested,
                   loopExit, tickErr, loopLog, targets, calls, closed, awaited,
                   liveTasks>>

ClientClose ==
    /\ ~closed
    /\ closed' = TRUE
    /\ UNCHANGED <<COIN_IDS, GUILD_ID, fetch, nickjob, http_session, update_task,
                   cancelRequested, loopExit, tickErr, loopLog, targets, calls,
                   shutdownPc, awaited, liveTasks, openSessions>>

---------------------------------------------------------------------------
Init ==
    /\ COIN_IDS = DefaultCoinIds
    /\ fetch = FetchStart(COIN_IDS)
    /\ nickjob = NoJob
    /\ SysInit

CallStep == \E g \in Guilds :
    CallMember(g) \/ CallFetch(g) \/ CallApiError(g) \/ CallNick(g) \/ CallPresence(g)

LoopStep == LoopStart \/ LoopSleepDone \/ LoopGatherDone \/ LoopGatherError
            \/ LoopCancelled

Next == CallStep \/ LoopStep \/ OnReady \/ ShutdownCall \/ ShutdownResume
        \/ ClientClose

Spec == Init /\ [][Next]_vars

(* The runs from GUILD_ID = 0 are, but for the value of GUILD_ID, the runs
   from GUILD_ID = None: l.137 sends both to the branch of l.143.  The fair
   runs are taken from the other configurations. *)
FairInit == Init /\ GUILD_ID # 0

(* The event loop runs every ready callback, timers fire and every request
   ends (the price request by its 10 s timeout): steps of the loop task and
   of the update_guild calls are not postponed for ever *)
FairSpec ==
    /\ FairInit /\ [][Next]_vars
    /\ WF_vars(LoopStep) /\ WF_vars(CallStep) /\ WF_vars(ShutdownResume)

---------------------------------------------------------------------------
(* Properties of get_price_data, checked under SpecFetch *)

Attempts == Len(backoffs)

RECURSIVE TotalWait(_)
TotalWait(tr) == IF tr = <<>> THEN 0 ELSE tr[Len(tr)].wait + TotalWait(SubSeq(tr, 1, Len(tr) - 1))

(* C2: the sources are requested strictly in list order, a source only after
   each earlier source has failed all 4 attempts; the first attempt that
   succeeds ends the call with its data as the result (it is the last
   request, and nothing is waited for after it); a success on the first
   attempt of the primary source is preceded by no wait. *)
C2_OrderedFallback ==
    LET tr == fetch.trace IN
    /\ \A i \in 1 .. Len(tr) :
         /\ tr[i].src \in 1 .. Len(COIN_IDS)
         /\ \A s \in 1 .. tr[i].src - 1 : \A a \in 1 .. Attempts :
              \E j \in 1 .. i - 1 : tr[j].src = s /\ tr[j].attempt = a /\ ~tr[j].ok
         /\ \A j \in 1 .. i - 1 : tr[j].src <= tr[i].src
         /\ tr[i].ok =>
              /\ i = Len(tr)
              /\ fetch.result = "ok"
              /\ fetch.price = tr[i].price /\ fetch.change = tr[i].change
    /\ fetch.result = "ok" => Len(tr) >= 1 /\ tr[Len(tr)].ok
    /\ (Len(tr) = 1 /\ tr[1].ok) => (tr[1].src = 1 /\ TotalWait(tr) = 0)

(* The secondary source answered on its first attempt after the primary
   failed all of its attempts *)
C2_Witness ==
    /\ fetch.result = "ok"
    /\ Len(fetch.trace) = Attempts + 1
    /\ fetch.trace[Attempts + 1].src = 2
    /\ fetch.fallbackLogged

AllAttemptsFailed ==
    /\ Len(fetch.trace) = Len(COIN_IDS) * Attempts
    /\ \A i \in 1 .. Len(fetch.trace) : ~fetch.trace[i].ok
    /\ fetch.result # "running"

(* C3: when every source has failed every attempt the call fails with the
   exhaustion error, which carries the last recorded error, after exactly
   (number of sources) x 4 requests; and only then. *)
C3_Exhaustion ==
    /\ AllAttemptsFailed =>
         /\ fetch.result = "exhausted"
         /\ Len(fetch.trace) > 0 =>
              /\ fetch.last_err.src = Len(COIN_IDS)
              /\ fetch.last_err.attempt = Attempts
    /\ fetch.result = "exhausted" => AllAttemptsFailed

(* C4: no failure of an attempt leaves get_price_data: after a failed
   attempt the call is still running, or has ended by a later success or by
   exhaustion, and the failure is the recorded last error. *)
C4_EveryFailureRecoverable ==
    /\ fetch.result # "propagated"
    /\ \A i \in 1 .. Len(fetch.trace) :
         (~fetch.trace[i].ok /\ i = Len(fetch.trace)) =>
            /\ fetch.last_err.src = fetch.trace[i].src
            /\ fetch.last_err.attempt = fetch.trace[i].attempt

---------------------------------------------------------------------------
(* Properties of the scheduler, the reconciliation and the lifecycle *)

RECURSIVE SumFetches(_)
SumFetches(S) ==
    IF S = {} THEN 0
    ELSE LET g == CHOOSE x \in S : TRUE IN calls[g].fetches + SumFetches(S \ {g})

Observed(g) == calls[g].obs.kind # "none"

C5_NeverPropagates == \A g \in Guilds : calls[g].pc # "raised"

(* C6: an exception of a tick never ends the loop task: it is caught, the
   loop is at its inter-tick sleep, and unless the client is closed or the
   task cancelled a next tick follows. *)
C6_LoopSurvives ==
    /\ [](loopExit # "crashed")
    /\ [](tickErr => (update_task \in {"sleep", "done"} /\ loopLog = ERROR))
    /\ [](tickErr => <>(~tickErr \/ closed \/ cancelRequested \/ update_task = "done"))

(* The except of the loop body has run and the loop is asleep *)
C6_Witness ==
    /\ tickErr /\ update_task = "sleep" /\ ~closed /\ ~cancelRequested
    /\ \E g \in Guilds : calls[g].pc = "raised"

(* C7: whatever readiness signals arrive, at most one loop task is alive and
   at most one session is open, and while the loop runs and the session is
   open no step creates a task or a session. *)
C7_IdempotentStartup ==
    /\ [](/\ liveTasks = (IF TaskActive(update_task) THEN 1 ELSE 0)
          /\ openSessions = (IF http_session = "open" THEN 1 ELSE 0)
          /\ liveTasks <= 1 /\ openSessions <= 1)
    /\ [][(TaskActive(update_task) /\ http_session = "open") =>
            (liveTasks' <= liveTasks /\ openSessions' <= openSessions)]_vars

(* A loop that a later readiness signal has started, with _shutdown behind it *)
C7_Witness ==
    /\ awaited = "done" /\ TaskActive(update_task)
    /\ liveTasks = 1 /\ openSessions = 1

(* C8: when _shutdown has returned, the loop task is done and the session
   is closed, so that a further call finds nothing to do *)
C8_ShutdownLeavesStopped ==
    shutdownPc = "returned" =>
        /\ ~ShutdownCancels(update_task)
        /\ ~ShutdownCloses(http_session)

(* C9 as stated: a loop stopped by a completed _shutdown stays stopped *)
C9_StoppedIsTerminal ==
    [][(update_task = "done" /\ loopExit = "cancelled" /\ shutdownPc = "returned")
         => update_task' = "done"]_vars

(* C9, amended: Stopped is not terminal.  A stopped loop is started again by
   a readiness signal and by nothing else: the step that leaves Stopped
   spawns exactly one new loop task and leaves a session open, and a
   readiness signal after _shutdown has returned always is such a step. *)
C9_RestartOnReady ==
    /\ [][(update_task = "done" /\ update_task' # "done") =>
            (/\ update_task' = "wait_ready" /\ liveTasks' = 1
             /\ http_session' = "open" /\ ~closed)]_vars
    /\ [][(update_task = "done" /\ shutdownPc = "returned" /\ shutdownPc' = "idle") =>
            (update_task' = "wait_ready" /\ http_session' = "open")]_vars

(* A loop running again after _shutdown had stopped one and returned *)
C9_Witness ==
    /\ awaited = "done" /\ shutdownPc = "idle" /\ loopExit = "none"
    /\ update_task = "gather" /\ http_session = "open"

(* C10: a reconciliation that found neither permission has made no nickname
   edit, no status edit and no price request, and has logged nothing above
   informational severity. *)
C10_NoPermissionNoEffect ==
    \A g \in Guilds :
        calls[g].perm = "missing" =>
            /\ calls[g].pc \in {"done"}
            /\ calls[g].nick = 0 /\ calls[g].status = 0
            /\ calls[g].fetches = 0 /\ calls[g].requests = 0
            /\ calls[g].log <= INFO

(* A target without permission, done, next to one that was edited *)
C10_Witness ==
    \E g \in Guilds :
        /\ calls[g].perm = "missing" /\ calls[g].pc = "done" /\ calls[g].log = INFO
        /\ \E h \in Guilds : calls[h].nick = 1

---------------------------------------------------------------------------
(* The backoff of get_price_data, checked under SpecFetch *)

(* C19: the wait before a request depends on the attempt index alone:
   attempts 1, 2, 3, 4 of every source are preceded by 0, 1.5, 3 and 5
   seconds (in tenths: 0, 15, 30, 50); the first attempt of every source is
   made at once and the attempts of a source are numbered from 1 again. *)
C19_BackoffByAttempt ==
    LET tr == fetch.trace IN
    \A i \in 1 .. Len(tr) :
        /\ tr[i].attempt \in 1 .. 4
        /\ tr[i].wait = <<0, 15, 30, 50>>[tr[i].attempt]
        /\ (i = 1 \/ tr[i].src # tr[i - 1].src) =>
               (tr[i].attempt = 1 /\ tr[i].wait = 0)
        /\ (i > 1 /\ tr[i].src = tr[i - 1].src) =>
               tr[i].attempt = tr[i - 1].attempt + 1

(* The second source after the first has used up its schedule: 5 seconds
   before the last attempt of the first, none before its own first, 1.5
   before its second *)
C19_Witness ==
    /\ Len(fetch.trace) >= 6
    /\ fetch.trace[4].src = 1 /\ fetch.trace[4].wait = 50
    /\ fetch.trace[5].src = 2 /\ fetch.trace[5].wait = 0
    /\ fetch.trace[6].src = 2 /\ fetch.trace[6].wait = 15

---------------------------------------------------------------------------
(* Properties of the target set of a tick *)

(* C11: when a guild id is configured and the bot has not joined that guild,
   the tick has no target: no update_guild call is made, no price is fetched,
   and the loop goes to its sleep without an error. *)
C11_UnjoinedTargetIdle ==
    (GUILD_ID # GuildIdNone /\ GUILD_ID \notin Guilds) =>
        /\ targets = {}
        /\ \A g \in Guilds : calls[g] = FreshCall
        /\ update_task # "gather"
        /\ ~tickErr /\ loopLog <= INFO

(* C20: with a guild id configured, whatever integer it is, the targets of
   a tick are that guild if the bot has joined it and nothing otherwise, and
   no other guild gets an update_guild call; with none configured the
   targets are all joined guilds. *)
C20_TargetSetByConfiguration ==
    /\ GUILD_ID # GuildIdNone =>
         /\ targets \subseteq ({GUILD_ID} \cap Guilds)
         /\ \A g \in Guilds \ {GUILD_ID} : calls[g] = FreshCall
         /\ (update_task \in {"gather", "sleep"} /\ GUILD_ID \in Guilds) =>
                targets = {GUILD_ID}
    /\ (GUILD_ID = GuildIdNone /\ update_task \in {"gather", "sleep"}) =>
         targets = Guilds

---------------------------------------------------------------------------
(* Properties of update_guild *)

(* C12: in a tick a target gets at most one nickname edit and at most one
   status edit, whatever the outcome of either: nothing is tried again. *)
C12_NoRetryWithinTick ==
    \A g \in Guilds : calls[g].nick <= 1 /\ calls[g].status <= 1

(* A call that ended with one nickname edit and one status edit behind it *)
C12_Witness ==
    \E g \in Guilds :
        /\ calls[g].pc = "done" /\ calls[g].obs.kind = "sample"
        /\ calls[g].nick = 1 /\ calls[g].status = 1
        /\ calls[g].log = INFO

(* C13: once update_guild has attempted the nickname edit it goes on to
   attempt the status edit, however the nickname edit ended (success,
   Forbidden or any other error); a call that was not cancelled and has left
   the status edit behind, or has ended without it, has made it. *)
C13_StatusAfterNickname ==
    \A g \in Guilds :
        (calls[g].nick >= 1 /\ calls[g].pc \notin {"presence", "cancelled"}) =>
            calls[g].status >= 1

(* C14: a reconciliation with sufficient permission whose price fetch failed
   makes no nickname edit and raises nothing; it sets the status "API error"
   once and returns, whether or not setting that status succeeded. *)
C14_FetchFailureMarksStatus ==
    \A g \in Guilds :
        calls[g].obs.kind = "failed" =>
            /\ calls[g].perm = "granted"
            /\ calls[g].nick = 0
            /\ calls[g].raised = "none"
            /\ calls[g].pc \in {"api_error", "done", "cancelled"}
            /\ calls[g].pc = "done" =>
                   (calls[g].status = 1 /\ calls[g].statusText = "API error")

(* A target marked "API error" after its requests failed, next to a target
   that got its nickname *)
C14_Witness ==
    \E g, h \in Guilds :
        /\ calls[g].obs.kind = "failed" /\ calls[g].pc = "done"
        /\ calls[g].requests > 0 /\ calls[g].statusText = "API error"
        /\ calls[h].nick = 1

---------------------------------------------------------------------------
(* Properties of a tick: the gather and what it leaves behind *)

(* C15: the sleep between two ticks does not begin while an update_guild
   call of the tick is still in flight, also when a call of the tick failed
   unexpectedly. *)
C15_SleepAfterAllFinished ==
    update_task = "sleep" => \A g \in targets : ~InFlight(calls[g])

---------------------------------------------------------------------------
(* Properties of the nickname lines, checked under SpecNick *)

(* C16: the nickname handed to the edit is at most 32 code points long: a
   formatted nickname longer than 32 is cut to exactly its first 32, a
   shorter one is handed over as it is, and every sample (infinities and
   NaN included) gets one. *)
C16_NicknameWithinLimit ==
    nickjob.stage = "edit" =>
        /\ Len(nickjob.nickname) <= 32
        /\ Len(nickjob.formatted) > 32 =>
               nickjob.nickname = SubSeq(nickjob.formatted, 1, 32)
        /\ Len(nickjob.formatted) <= 32 => nickjob.nickname = nickjob.formatted
        /\ nickjob.formatted[1] = "$"
        /\ Len(nickjob.formatted) >= 6

(* A price of 25 nines that rounds up to 26 digits: 33 code points, cut to
   32, the circle lost *)
C16_Witness ==
    /\ nickjob.stage = "edit"
    /\ Len(nickjob.price.int) = 25
    /\ Len(nickjob.formatted) = 33
    /\ Len(nickjob.nickname) = 32
    /\ nickjob.nickname[32] = " "

(* C17: the unexpected failure of one update_guild call does not stop the
   other calls of the tick: the failed gather leaves them as they are, nothing
   cancels them afterwards, each of them runs to its own end, and one that
   ends with a sample behind it has made its nickname edit and its status
   edit. *)
C17_SiblingsGoOn ==
    /\ [][\A g \in Guilds :
            (InFlight(calls[g]) /\ (calls[g].gen = "orphan" \/ calls'[g].gen = "orphan")) =>
                /\ calls'[g].pc # "cancelled"
                /\ calls'[g].gen = "orphan"
                /\ calls[g].gen = "cur" => calls'[g].pc = calls[g].pc]_vars
    /\ [](\A g \in Guilds :
            (calls[g].gen = "orphan" /\ calls[g].pc = "done"
                                    /\ calls[g].obs.kind = "sample") =>
                (calls[g].nick = 1 /\ calls[g].status = 1))
    /\ (\E g \in Guilds : calls[g].gen = "orphan" /\ InFlight(calls[g]))
         ~> (\A g \in Guilds : ~InFlight(calls[g]))

(* A call that was still running when another call of its tick made the
   gather fail, and has made both edits since *)
C17_Witness ==
    /\ tickErr
    /\ \E g, h \in Guilds :
         /\ calls[g].pc = "raised" /\ calls[g].gen = "cur"
         /\ calls[h].gen = "orphan" /\ calls[h].pc = "done"
         /\ calls[h].nick = 1 /\ calls[h].status = 1

(* C18: when _shutdown has returned and no loop has been started since, no
   update_guild call of any tick is still in flight, and so no price request
   and no request to Discord made by one. *)
C18_ShutdownLeavesNoWork ==
    (shutdownPc = "returned" /\ ~TaskActive(update_task)) =>
        \A g \in Guilds : ~InFlight(calls[g])

====
